---- MODULE Spec2Model ----
(***************************************************************************)
(* Model of enable_ai_sdk/agent_monitor.py: the AgentMonitor wrapper with  *)
(* its SamplingManager, the fire-and-forget report threads and the         *)
(* background monitor loop.                                                *)
(*                                                                         *)
(* Threads: "caller" (the application thread that calls                    *)
(* generate_response; "caller2" is a second one, where the application has *)
(* two), "bg" (monitor_loop, started by the constructor when *)
(* report_async is true) and one "report" thread per report queued by      *)
(* _queue_performance_report.  Every thread has a frame: its position in   *)
(* the code (pc) and the local variables of the function it is in.  A      *)
(* step is one access to the monitor's shared attributes or one HTTP call; *)
(* Python gives no atomicity beyond that (no lock is taken anywhere).      *)
(*                                                                         *)
(* Time is counted in units of 300 seconds (time.time() / 300); a clock    *)
(* value of 0 never occurs, so last_healing_check = 0 stands for None      *)
(* (both are falsy).                                                       *)
(* average_score is a float in the code; here it is the exact value        *)
(* multiplied by AvgScale, which keeps every halving exact.                *)
(***************************************************************************)
EXTENDS Integers, Sequences, FiniteSets, Bags, TLC

(* ---------------------------- bounds ----------------------------------- *)
\* Spec: generate_response calls whose model call succeeds, per run, of a
\* monitor that reports synchronously and of one that reports asynchronously
SyncCalls == 11
AsyncCalls == 1
\* Spec: report replies that carry a quality_score, per run
SpecScored == 1
\* Spec: last value of the clock
MaxTime == 3
\* SpecBurst: calls per run, report threads alive at the same time, report
\* replies that carry a quality_score
BurstCalls == 3
MaxInFlight == 2
MaxScored == 3
\* SpecSampling, SpecAux: calls the application makes on the SamplingManager
\* and of the auxiliary read operations per run, and the last day number
MaxDirect == 5
MaxDay == 2
\* SpecLive: calls of generate_response and of stop_monitoring per run, last
\* value of the clock
LiveCalls == 1
MaxStops == 1
LiveTime == 3
\* SpecStop: last value of the clock
StopTime == 2
\* SpecClient: requests the application makes per run
MaxRequests == 3
\* SpecPair: generate_response calls whose model call succeeds, per run
PairCalls == 3

(* ------------------------ program constants ---------------------------- *)
\* interaction_count % 10
HealingCadence == 10
\* current_time - last_healing_check > 300 (seconds), in clock units
HealingInterval == 1
\* time.sleep(300) of monitor_loop, in clock units
LoopSleep == 1
\* time.sleep(60) of monitor_loop's except branch: less than a clock unit
ErrorSleep == 0

\* average_score is kept as value * AvgScale
AvgScale == 2 ^ (MaxScored + SpecScored)

VARIABLES
    env,                \* the bounds of this run (never changes)
    report_async,       \* constructor arguments (never change)
    enable_sampling,
    auto_healing,
    sampling_config,
    interaction_count,  \* Monitor State
    average_score,
    last_healing_check,
    system_prompt,
    stop_flag,          \* self._stop_monitoring
    batch_queue,        \* Sampling State
    daily_sample_count,
    last_reset_date,
    today,              \* datetime.now().date(), as a day number
    now,                \* time.time(), in units of 300 seconds
    th,                 \* frames of "caller" (and "caller2") and "bg"
    reports,            \* bag of the frames of the live report threads
    wake,               \* when monitor_loop's sleep ends
    result,             \* how the last generate_response call ended
    calls,              \* model calls that returned a response
    received,           \* the quality scores the report replies carried
    acked,              \* report POSTs answered 201
    observed            \* the last call the application made on the
                        \* SamplingManager, stop_monitoring or the client

vars == <<env, report_async, enable_sampling, auto_healing, sampling_config,
          interaction_count, average_score, last_healing_check, system_prompt,
          stop_flag, batch_queue, daily_sample_count, last_reset_date, today,
          now, th, reports, wake, result, calls, received, acked, observed>>

config == <<env, report_async, enable_sampling, auto_healing, sampling_config>>
sampling_state == <<batch_queue, daily_sample_count, last_reset_date>>

(* ------------------------- the backend --------------------------------- *)
\* status 0: the HTTP call raised (connection error, timeout, bad JSON)
Exc == [status |-> 0]
AGENT_ID == "agent-1"

Scores == {0, 60, 80, 100}
\* dict tells whether the JSON body is an object: json() of a body like []
\* or null gives a value that has no get
ReportReplies ==
    [status : {201}, has_score : {TRUE}, score : Scores, dict : {TRUE}]
    \cup {[status |-> 201, has_score |-> FALSE, score |-> 0, dict |-> TRUE],
          [status |-> 201, has_score |-> FALSE, score |-> 0, dict |-> FALSE],
          [status |-> 500, has_score |-> FALSE, score |-> 0, dict |-> TRUE],
          [status |-> 0, has_score |-> FALSE, score |-> 0, dict |-> TRUE]}

ScanReplies ==
    [status : {200}, agents_flagged : {{}, {"agent-2"}, {"agent-1", "agent-2"}}]
    \cup {[status |-> 500, agents_flagged |-> {}],
          [status |-> 0, agents_flagged |-> {}]}

\* "" stands for a missing or empty prompt (both are falsy)
HealReplies ==
    [status : {200}, prompt_updated : BOOLEAN, suggested_prompt : {"", "suggested"}]
    \cup {[status |-> 500, prompt_updated |-> FALSE, suggested_prompt |-> ""],
          [status |-> 0, prompt_updated |-> FALSE, suggested_prompt |-> ""]}

FetchReplies ==
    [status : {200}, system_prompt : {"", "fetched"}]
    \cup {[status |-> 500, system_prompt |-> ""],
          [status |-> 0, system_prompt |-> ""]}

BatchReplies ==
    [status : {201}, average_score : {0, 60}]
    \cup {[status |-> 500, average_score |-> 0],
          [status |-> 0, average_score |-> 0]}

(* ---------------------- calls of the application ----------------------- *)
\* n counts the calls; op is the function called, draw what random.random()
\* gave it, ret the boolean and batch the list it returned, exc the
\* exception it raised ("" when it raised none)
\* a JSON object (a dict in the code) gives every key of Keys a string, or
\* Missing when it does not have the key
Keys == {"error", "score", "issue", "feedback_id", "feedback_log_id", "timestamp"}
Missing == "<missing>"
EmptyDict == [k \in Keys |-> Missing]

\* reply is what the backend answered to a request of the client, out how
\* the request ended
NoReply ==
    [net |-> "", status |-> 0, body |-> [text |-> "", json |-> EmptyDict]]
NoOutcome ==
    [kind |-> "", exc |-> "", detail |-> "", part |-> "", data |-> EmptyDict]
NoCall ==
    [n |-> 0, op |-> "", draw |-> 0, ret |-> FALSE, batch |-> <<>>, exc |-> "",
     reply |-> NoReply, out |-> NoOutcome]

Called(op) == [NoCall EXCEPT !.n = observed.n + 1, !.op = op]

(* --------------------------- frames ------------------------------------ *)
NoResp == [status |-> -1]

Frame(pc) ==
    [pc |-> pc, resp |-> NoResp, c |-> 0, a |-> 0, ct |-> 0,
     response |-> 0, batch |-> <<>>]

\* the frame of a thread that moves on inside generate_response: the
\* response of the model call is the only local that lives that long
Continue(f, pc) == [Frame(pc) EXCEPT !.response = f.response]

\* the application threads that call generate_response
Callers == {"caller", "caller2"}

Running ==
    {<<t, th[t]>> : t \in DOMAIN th}
    \cup {<<"report", f>> : f \in BagToSet(reports)}

\* thread t, now in frame f, moves to frame f2
Goto(t, f, f2) ==
    /\ IF t = "report"
       THEN /\ reports' = (reports (-) SetToBag({f})) (+) SetToBag({f2})
            /\ UNCHANGED th
       ELSE /\ th' = [th EXCEPT ![t] = f2]
            /\ UNCHANGED reports
    /\ UNCHANGED <<result, wake>>

(* ------------------- returns and exceptions ---------------------------- *)
\* the try/except Exception blocks: _report_performance (323-364),
\* _send_batch (272-297), _trigger_self_healing (390-466)
CatchesReportAndHealing(proc) ==
    proc \in {"_report_performance", "_trigger_self_healing"}

CatchesReportAndBatch(proc) ==
    proc \in {"_report_performance", "_send_batch"}

Catches(proc) ==
    proc \in {"_report_performance", "_send_batch", "_trigger_self_healing"}

\* _report_performance returns: a report thread ends, the caller of a
\* synchronous report goes on to _check_self_healing
EndReport(t, f) ==
    IF t = "report"
    THEN /\ reports' = reports (-) SetToBag({f})
         /\ UNCHANGED <<th, result, wake>>
    ELSE Goto(t, f, Continue(f, "chk_count"))

\* _send_batch returns into _handle_sampled_reporting, line 268
EndBatch(t, f) == Goto(t, f, Continue(f, "s_rd_count"))

\* _check_self_healing returns: generate_response returns the response
\* (line 239), monitor_loop sleeps (line 529)
EndCheck(t, f) ==
    IF t \in Callers
    THEN /\ th' = [th EXCEPT ![t] = Frame("idle")]
         /\ result' = [kind |-> "returned", value |-> f.response, by |-> ""]
         /\ UNCHANGED <<reports, wake>>
    ELSE /\ th' = [th EXCEPT ![t] = Frame("sleep")]
         /\ wake' = now + LoopSleep
         /\ UNCHANGED <<reports, result>>

\* an exception nothing caught leaves the function: generate_response
\* raises it to the application, a report thread dies, monitor_loop's
\* except branch sleeps a minute (lines 530-532)
Propagate(t, f) ==
    CASE t \in Callers ->
            /\ th' = [th EXCEPT ![t] = Frame("idle")]
            /\ result' = [kind |-> "raised", value |-> 0, by |-> "monitoring"]
            /\ UNCHANGED <<reports, wake>>
      [] t = "report" ->
            /\ reports' = reports (-) SetToBag({f})
            /\ UNCHANGED <<th, result, wake>>
      [] OTHER ->
            /\ th' = [th EXCEPT ![t] = Frame("sleep")]
            /\ wake' = now + ErrorSleep
            /\ UNCHANGED <<reports, result>>

\* an HTTP call made inside proc raised
Raised(t, f, proc) ==
    IF Catches(proc)
    THEN CASE proc = "_report_performance" -> EndReport(t, f)
           [] proc = "_send_batch" -> EndBatch(t, f)
           [] OTHER -> EndCheck(t, f)
    ELSE Propagate(t, f)

(* --------------------- _report_performance ----------------------------- *)
ReportedAny(resp) == resp.status # 0

\* api_response.status_code == 201 (line 343)
Reported(resp) == resp.status = 201

\* if result.get('quality_score') (line 348): a missing score and 0 are falsy
HasScore(resp) == resp.has_score /\ resp.score # 0

Scaled(score) == score * AvgScale

\* lines 350-353, on the scaled value
Fold(a, score) ==
    IF a = 0 THEN Scaled(score) ELSE (a + Scaled(score)) \div 2

NotIncremented(c) == c

\* self.interaction_count += 1, the value stored
Incremented(c) == c + 1

\* line 337: the POST of one interaction
ReportPost(t, f) ==
    /\ f.pc = "post"
    /\ \E r \in ReportReplies :
          /\ r.has_score => Len(received) < env.maxScored
          /\ received' = IF r.has_score THEN Append(received, r.score)
                         ELSE received
          /\ acked' = IF r.status = 201 THEN acked + 1 ELSE acked
          /\ Goto(t, f, [f EXCEPT !.pc = "post_done", !.resp = r])
    /\ UNCHANGED <<config, observed, interaction_count, average_score, last_healing_check,
                   system_prompt, stop_flag, sampling_state, today, now, calls>>

\* lines 343-345 and 358-364: the status test and the read of
\* self.interaction_count += 1
ReportStatus(t, f) ==
    /\ f.pc = "post_done"
    /\ CASE f.resp.status = 0 -> Raised(t, f, "_report_performance")
         [] Reported(f.resp) ->
                Goto(t, f, [f EXCEPT !.pc = "inc_count", !.c = interaction_count])
         [] OTHER -> EndReport(t, f)
    /\ UNCHANGED <<config, observed, interaction_count, average_score, last_healing_check,
                   system_prompt, stop_flag, sampling_state, today, now, calls,
                   received, acked>>

\* line 345, the store of self.interaction_count += 1, and the test of 348,
\* where result.get raises AttributeError when result is not a dict
ReportIncCount(t, f) ==
    /\ f.pc = "inc_count"
    /\ interaction_count' = Incremented(f.c)
    /\ CASE ~f.resp.dict -> Raised(t, f, "_report_performance")
         [] HasScore(f.resp) -> Goto(t, f, [f EXCEPT !.pc = "rd_avg", !.c = 0])
         [] OTHER -> EndReport(t, f)
    /\ UNCHANGED <<config, observed, average_score, last_healing_check,
                   system_prompt, stop_flag, sampling_state, today, now, calls,
                   received, acked>>

\* lines 350 and 353: the read of self.average_score
ReportReadAvg(t, f) ==
    /\ f.pc = "rd_avg"
    /\ Goto(t, f, [f EXCEPT !.pc = "wr_avg", !.a = average_score])
    /\ UNCHANGED <<config, observed, interaction_count, average_score, last_healing_check,
                   system_prompt, stop_flag, sampling_state, today, now, calls,
                   received, acked>>

\* lines 351 and 353: the store of self.average_score; line 357
ReportWriteAvg(t, f) ==
    /\ f.pc = "wr_avg"
    /\ average_score' = Fold(f.a, f.resp.score)
    /\ EndReport(t, f)
    /\ UNCHANGED <<config, observed, interaction_count, last_healing_check,
                   system_prompt, stop_flag, sampling_state, today, now, calls,
                   received, acked>>

(* -------------- _check_self_healing, _trigger_self_healing ------------- *)
CadenceEveryFive(count) == count % 5 = 0

\* line 378
CadenceDue(count) == count % HealingCadence = 0

\* lines 382-383
IntervalElapsed(last, current_time) ==
    last = 0 \/ current_time - last > HealingInterval

AnyAgentFlagged(resp) == resp.agents_flagged # {}

\* lines 406-411
AgentFlagged(resp) == AGENT_ID \in resp.agents_flagged

\* lines 378-379: the cadence test and current_time = time.time(); c keeps
\* the value of interaction_count the test read
CheckCount(t, f) ==
    /\ f.pc = "chk_count"
    /\ IF CadenceDue(interaction_count)
       THEN Goto(t, f, [f EXCEPT !.pc = "chk_time", !.ct = now,
                                 !.c = interaction_count])
       ELSE EndCheck(t, f)
    /\ UNCHANGED <<config, observed, interaction_count, average_score, last_healing_check,
                   system_prompt, stop_flag, sampling_state, today, now, calls,
                   received, acked>>

\* lines 382-383: the read of self.last_healing_check
CheckTime(t, f) ==
    /\ f.pc = "chk_time"
    /\ IF IntervalElapsed(last_healing_check, f.ct)
       THEN Goto(t, f, [f EXCEPT !.pc = "set_last"])
       ELSE EndCheck(t, f)
    /\ UNCHANGED <<config, observed, interaction_count, average_score, last_healing_check,
                   system_prompt, stop_flag, sampling_state, today, now, calls,
                   received, acked>>

\* line 385: the store of self.last_healing_check
SetLastCheck(t, f) ==
    /\ f.pc = "set_last"
    /\ last_healing_check' = f.ct
    /\ Goto(t, f, [f EXCEPT !.pc = "scan", !.ct = 0])
    /\ UNCHANGED <<config, observed, interaction_count, average_score,
                   system_prompt, stop_flag, sampling_state, today, now, calls,
                   received, acked>>

\* line 392: POST /self-healing/scan
Scan(t, f) ==
    /\ f.pc = "scan"
    /\ \E r \in ScanReplies :
          Goto(t, f, [f EXCEPT !.pc = "scan_done", !.resp = r])
    /\ UNCHANGED <<config, observed, interaction_count, average_score, last_healing_check,
                   system_prompt, stop_flag, sampling_state, today, now, calls,
                   received, acked>>

\* lines 398-415
ScanDone(t, f) ==
    /\ f.pc = "scan_done"
    /\ CASE f.resp.status = 0 -> Raised(t, f, "_trigger_self_healing")
         [] f.resp.status # 200 -> EndCheck(t, f)
         [] ~AgentFlagged(f.resp) -> EndCheck(t, f)
         [] OTHER -> Goto(t, f, Continue(f, "heal"))
    /\ UNCHANGED <<config, observed, interaction_count, average_score, last_healing_check,
                   system_prompt, stop_flag, sampling_state, today, now, calls,
                   received, acked>>

\* line 418: POST /agent/self_heal
Heal(t, f) ==
    /\ f.pc = "heal"
    /\ \E r \in HealReplies :
          Goto(t, f, [f EXCEPT !.pc = "heal_done", !.resp = r])
    /\ UNCHANGED <<config, observed, interaction_count, average_score, last_healing_check,
                   system_prompt, stop_flag, sampling_state, today, now, calls,
                   received, acked>>

FetchNeededSuggest(resp) == resp.prompt_updated /\ ~auto_healing

SuggestionGivenAuto(resp) == resp.suggested_prompt # "" /\ auto_healing

\* line 431
FetchNeeded(resp) == resp.prompt_updated /\ auto_healing

\* line 452
SuggestionGiven(resp) == resp.suggested_prompt # "" /\ ~auto_healing

\* lines 427-462
HealDone(t, f) ==
    /\ f.pc = "heal_done"
    /\ CASE f.resp.status = 0 ->
                Raised(t, f, "_trigger_self_healing") /\ UNCHANGED system_prompt
         [] f.resp.status # 200 -> EndCheck(t, f) /\ UNCHANGED system_prompt
         [] FetchNeeded(f.resp) ->
                /\ Goto(t, f, Continue(f, "fetch"))
                /\ UNCHANGED system_prompt
         [] SuggestionGiven(f.resp) ->
                /\ system_prompt' = f.resp.suggested_prompt
                /\ EndCheck(t, f)
         [] OTHER -> EndCheck(t, f) /\ UNCHANGED system_prompt
    /\ UNCHANGED <<config, observed, interaction_count, average_score, last_healing_check,
                   stop_flag, sampling_state, today, now, calls, received, acked>>

\* line 435: GET /agent/{agent_id}/prompt
Fetch(t, f) ==
    /\ f.pc = "fetch"
    /\ \E r \in FetchReplies :
          Goto(t, f, [f EXCEPT !.pc = "fetch_done", !.resp = r])
    /\ UNCHANGED <<config, observed, interaction_count, average_score, last_healing_check,
                   system_prompt, stop_flag, sampling_state, today, now, calls,
                   received, acked>>

\* lines 440-443
PromptFetched(resp) == resp.status = 200 /\ resp.system_prompt # ""

\* lines 440-450, then 459: the inner try catches what the GET raises
FetchDone(t, f) ==
    /\ f.pc = "fetch_done"
    /\ system_prompt' = IF PromptFetched(f.resp)
                        THEN f.resp.system_prompt ELSE system_prompt
    /\ EndCheck(t, f)
    /\ UNCHANGED <<config, observed, interaction_count, average_score, last_healing_check,
                   stop_flag, sampling_state, today, now, calls, received, acked>>

(* ------------------------ SamplingManager ------------------------------ *)
\* random.random(), in percent
Draws == {0, 25, 75}

ShouldSampleNoReset(draw) ==
    LET sampled == /\ daily_sample_count < sampling_config.max_daily_samples
                   /\ draw < sampling_config.rate
    IN  [sampled |-> sampled,
         count |-> IF sampled THEN daily_sample_count + 1 ELSE daily_sample_count,
         date |-> today]

ShouldSampleInclusive(draw) ==
    LET count0 == IF today # last_reset_date THEN 0 ELSE daily_sample_count
        sampled == /\ count0 < sampling_config.max_daily_samples
                   /\ draw <= sampling_config.rate
    IN  [sampled |-> sampled,
         count |-> IF sampled THEN count0 + 1 ELSE count0,
         date |-> today]

ShouldSampleNoLimit(draw) ==
    LET count0 == IF today # last_reset_date THEN 0 ELSE daily_sample_count
        sampled == draw < sampling_config.rate
    IN  [sampled |-> sampled,
         count |-> IF sampled THEN count0 + 1 ELSE count0,
         date |-> today]

BatchNeverFull(queue) == FALSE

BatchOverfull(queue) == Len(queue) > sampling_config.batch_size

\* should_sample, lines 86-107: the daily counter and reset date it leaves
\* and what it returns.  hasattr(self, 'average_score') is asked of the
\* SamplingManager, which has no such attribute: line 102 is always taken.
ShouldSample(draw) ==
    LET count0 == IF today # last_reset_date THEN 0 ELSE daily_sample_count
        sampled == /\ count0 < sampling_config.max_daily_samples
                   /\ draw < sampling_config.rate
    IN  [sampled |-> sampled,
         count |-> IF sampled THEN count0 + 1 ELSE count0,
         date |-> today]

\* add_to_batch, line 114
BatchFull(queue) == Len(queue) >= sampling_config.batch_size

ModelRaisesInFinally(t, f) ==
    /\ result' = [kind |-> "raised", value |-> 0, by |-> "model"]
    /\ th' = [th EXCEPT ![t] = [f EXCEPT !.pc = "chk_count"]]
    /\ UNCHANGED <<reports, calls>>

\* line 220: self._call_ai_model raises (lines 306-319 when it was not
\* overridden) and generate_response ends there
ModelRaises(t, f) ==
    /\ result' = [kind |-> "raised", value |-> 0, by |-> "model"]
    /\ UNCHANGED <<th, reports, calls>>

(* ---------------------- generate_response ------------------------------ *)
\* lines 217-234: the model call, then the choice of the reporting path.
\* A report thread is started right here (line 373).
Call(t, f) ==
    /\ t \in Callers
    /\ f.pc = "idle"
    /\ \/ ModelRaises(t, f)
       \/ /\ calls < env.maxCalls
          /\ calls' = calls + 1
          /\ result' = [kind |-> "none", value |-> 0, by |-> ""]
          /\ LET g == [f EXCEPT !.response = calls + 1]
             IN  CASE enable_sampling ->
                        /\ th' = [th EXCEPT ![t] = [g EXCEPT !.pc = "sample"]]
                        /\ UNCHANGED reports
                   [] report_async ->
                        /\ BagCardinality(reports) < env.maxInFlight
                        /\ reports' = reports (+) SetToBag({Frame("post")})
                        /\ th' = [th EXCEPT ![t] = [g EXCEPT !.pc = "chk_count"]]
                   [] OTHER ->
                        /\ th' = [th EXCEPT ![t] = [g EXCEPT !.pc = "post"]]
                        /\ UNCHANGED reports
    /\ UNCHANGED <<config, observed, interaction_count, average_score, last_healing_check,
                   system_prompt, stop_flag, sampling_state, today, now, wake,
                   received, acked>>

\* lines 257-266: should_sample, add_to_batch
Sample(t, f) ==
    /\ f.pc = "sample"
    /\ \E draw \in Draws :
          LET s == ShouldSample(draw)
              queue == IF s.sampled THEN Append(batch_queue, f.response)
                       ELSE batch_queue
          IN  /\ daily_sample_count' = s.count
              /\ last_reset_date' = s.date
              /\ batch_queue' = queue
              /\ IF s.sampled /\ BatchFull(queue)
                 THEN Goto(t, f, [f EXCEPT !.pc = "get_batch"])
                 ELSE Goto(t, f, [f EXCEPT !.pc = "s_rd_count"])
    /\ UNCHANGED <<config, observed, interaction_count, average_score, last_healing_check,
                   system_prompt, stop_flag, today, now, calls, received, acked>>

\* get_batch, line 121: batch = self.batch_queue.copy()
GetBatch(t, f) ==
    /\ f.pc = "get_batch"
    /\ Goto(t, f, [f EXCEPT !.pc = "clear_batch", !.batch = batch_queue])
    /\ UNCHANGED <<config, observed, interaction_count, average_score, last_healing_check,
                   system_prompt, stop_flag, sampling_state, today, now, calls,
                   received, acked>>

CopyBatch(t, f) ==
    /\ f.pc = "clear_batch"
    /\ batch_queue' = batch_queue
    /\ IF f.batch = <<>>
       THEN EndBatch(t, f)
       ELSE Goto(t, f, [f EXCEPT !.pc = "batch_post"])
    /\ UNCHANGED <<config, observed, interaction_count, average_score, last_healing_check,
                   system_prompt, stop_flag, daily_sample_count, last_reset_date,
                   today, now, calls, received, acked>>

\* get_batch, line 122: self.batch_queue.clear(); _send_batch, lines 274-275
ClearBatch(t, f) ==
    /\ f.pc = "clear_batch"
    /\ batch_queue' = <<>>
    /\ IF f.batch = <<>>
       THEN EndBatch(t, f)
       ELSE Goto(t, f, [f EXCEPT !.pc = "batch_post"])
    /\ UNCHANGED <<config, observed, interaction_count, average_score, last_healing_check,
                   system_prompt, stop_flag, daily_sample_count, last_reset_date,
                   today, now, calls, received, acked>>

\* line 280: POST /agent/external/performance/batch
BatchPost(t, f) ==
    /\ f.pc = "batch_post"
    /\ \E r \in BatchReplies :
          Goto(t, f, [f EXCEPT !.pc = "batch_done", !.resp = r])
    /\ UNCHANGED <<config, observed, interaction_count, average_score, last_healing_check,
                   system_prompt, stop_flag, sampling_state, today, now, calls,
                   received, acked>>

\* lines 286-297
BatchDone(t, f) ==
    /\ f.pc = "batch_done"
    /\ average_score' =
          IF f.resp.status = 201 /\ f.resp.average_score # 0
          THEN Scaled(f.resp.average_score) ELSE average_score
    /\ IF f.resp.status = 0 THEN Raised(t, f, "_send_batch") ELSE EndBatch(t, f)
    /\ UNCHANGED <<config, observed, interaction_count, last_healing_check,
                   system_prompt, stop_flag, sampling_state, today, now, calls,
                   received, acked>>

\* line 268: the read of self.interaction_count += 1
SampledReadCount(t, f) ==
    /\ f.pc = "s_rd_count"
    /\ Goto(t, f, [Continue(f, "s_wr_count") EXCEPT !.c = interaction_count])
    /\ UNCHANGED <<config, observed, interaction_count, average_score, last_healing_check,
                   system_prompt, stop_flag, sampling_state, today, now, calls,
                   received, acked>>

\* line 268: the store of self.interaction_count += 1
SampledWriteCount(t, f) ==
    /\ f.pc = "s_wr_count"
    /\ interaction_count' = Incremented(f.c)
    /\ Goto(t, f, Continue(f, "chk_count"))
    /\ UNCHANGED <<config, observed, average_score, last_healing_check,
                   system_prompt, stop_flag, sampling_state, today, now, calls,
                   received, acked>>

(* --------------- the SamplingManager, called directly ------------------ *)
\* should_sample(interaction_data), lines 82-107
should_sample ==
    /\ enable_sampling
    /\ observed.n < MaxDirect
    /\ \E draw \in Draws :
          LET s == ShouldSample(draw)
          IN  /\ daily_sample_count' = s.count
              /\ last_reset_date' = s.date
              /\ observed' = [Called("should_sample") EXCEPT
                                 !.draw = draw, !.ret = s.sampled]
    /\ UNCHANGED <<config, interaction_count, average_score, last_healing_check,
                   system_prompt, stop_flag, batch_queue, today, now, th,
                   reports, wake, result, calls, received, acked>>

\* add_to_batch(interaction_data), lines 109-117; the record added is
\* named by the number of the call
add_to_batch ==
    /\ enable_sampling
    /\ observed.n < MaxDirect
    /\ LET queue == Append(batch_queue, observed.n + 1)
       IN  /\ batch_queue' = queue
           /\ observed' = [Called("add_to_batch") EXCEPT !.ret = BatchFull(queue)]
    /\ UNCHANGED <<config, interaction_count, average_score, last_healing_check,
                   system_prompt, stop_flag, daily_sample_count, last_reset_date,
                   today, now, th, reports, wake, result, calls, received, acked>>

\* get_batch(), lines 119-123
get_batch ==
    /\ enable_sampling
    /\ observed.n < MaxDirect
    /\ batch_queue' = <<>>
    /\ observed' = [Called("get_batch") EXCEPT !.batch = batch_queue]
    /\ UNCHANGED <<config, interaction_count, average_score, last_healing_check,
                   system_prompt, stop_flag, daily_sample_count, last_reset_date,
                   today, now, th, reports, wake, result, calls, received, acked>>

\* datetime.now().date() (lines 80, 86) has moved to the next day
NewDay ==
    /\ today < MaxDay
    /\ today' = today + 1
    /\ UNCHANGED <<config, observed, interaction_count, average_score,
                   last_healing_check, system_prompt, stop_flag, sampling_state,
                   now, th, reports, wake, result, calls, received, acked>>

(* -------------------------- monitor_loop ------------------------------- *)
LoopIgnoringStop(t, f) ==
    /\ t = "bg"
    /\ f.pc = "loop"
    /\ Goto(t, f, Frame("chk_count"))
    /\ UNCHANGED <<config, observed, interaction_count, average_score,
                   last_healing_check, system_prompt, stop_flag, sampling_state,
                   today, now, calls, received, acked>>

\* line 525: while not self._stop_monitoring
Loop(t, f) ==
    /\ t = "bg"
    /\ f.pc = "loop"
    /\ IF stop_flag
       THEN Goto(t, f, Frame("exit"))
       ELSE Goto(t, f, Frame("chk_count"))
    /\ UNCHANGED <<config, observed, interaction_count, average_score, last_healing_check,
                   system_prompt, stop_flag, sampling_state, today, now, calls,
                   received, acked>>

\* lines 529, 532: time.sleep is over
Wake(t, f) ==
    /\ t = "bg"
    /\ f.pc = "sleep"
    /\ now >= wake
    /\ Goto(t, f, Frame("loop"))
    /\ UNCHANGED <<config, observed, interaction_count, average_score, last_healing_check,
                   system_prompt, stop_flag, sampling_state, today, now, calls,
                   received, acked>>

\* lines 529, 532: time.sleep is over at a time after the last value of the
\* clock, a value that stands for every later time as well
WakeLate(t, f) ==
    /\ t = "bg"
    /\ f.pc = "sleep"
    /\ now = env.maxTime
    /\ now < wake
    /\ Goto(t, f, Frame("loop"))
    /\ UNCHANGED <<config, observed, interaction_count, average_score, last_healing_check,
                   system_prompt, stop_flag, sampling_state, today, now, calls,
                   received, acked>>

(* ------------------------- stop_monitoring ----------------------------- *)
\* lines 541-542: the flag is set; join is called when the constructor
\* started a monitoring thread, else the function returns (line 544)
StopMonitoring(t, f) ==
    /\ t = "caller"
    /\ f.pc = "idle"
    /\ observed.n < MaxStops
    /\ stop_flag' = TRUE
    /\ IF report_async
       THEN /\ th' = [th EXCEPT ![t] = Frame("join")]
            /\ UNCHANGED observed
       ELSE /\ observed' = Called("stop_monitoring")
            /\ UNCHANGED th
    /\ UNCHANGED <<config, interaction_count, average_score, last_healing_check,
                   system_prompt, sampling_state, today, now, reports, wake,
                   result, calls, received, acked>>

\* line 543: join(timeout=5) is over, because the thread has ended or
\* because 5 seconds (less than a clock unit) have passed; line 544
JoinDone(t, f) ==
    /\ f.pc = "join"
    /\ th' = [th EXCEPT ![t] = Frame("idle")]
    /\ observed' = Called("stop_monitoring")
    /\ UNCHANGED <<config, interaction_count, average_score, last_healing_check,
                   system_prompt, stop_flag, sampling_state, today, now, reports,
                   wake, result, calls, received, acked>>

(* ------------------- EnableAIClient._make_request ---------------------- *)
Dict(pairs) == [k \in Keys |-> IF k \in DOMAIN pairs THEN pairs[k] ELSE Missing]

\* dict.get(key, default)
Get(d, key, default) == IF d[key] = Missing THEN default ELSE d[key]

\* the JSON objects the backend sends
JsonBodies ==
    {EmptyDict,
     Dict([error |-> "Invalid request"]),
     Dict([score |-> "85.0", issue |-> "None", feedback_id |-> "feedback-123",
           timestamp |-> "2024-01-01T00:00:00Z"]),
     Dict([score |-> "60.0", issue |-> "tone", feedback_log_id |-> "log-7"]),
     Dict([issue |-> "None", feedback_log_id |-> "log-8"])}

\* what session.request does (line 62): it raises a RequestException when
\* the connection is refused or times out, else it returns a response with
\* a status code and a body that is empty, JSON or other text
Statuses == {200, 201, 204, 302, 400, 401, 402, 403, 404, 422, 429, 500, 502, 503}
Bodies ==
    [text : {"", "text"}, json : {EmptyDict}]
        \cup [text : {"json"}, json : JsonBodies]
Replies ==
    [net : {"refused", "timeout"}, status : {0}, body : {NoReply.body}]
        \cup [net : {"ok"}, status : Statuses, body : Bodies]

\* setup.py asks for requests>=2.25.0: the JSONDecodeError of response.json()
\* is a RequestException from requests 2.27 on, a plain ValueError before
Builds == {"requests<2.27", "requests>=2.27"}

\* an exception with its message: detail is the fixed part of the message,
\* part names what the message ends with ("" when it is all fixed)
RaisesWith(exc, detail, part) ==
    [NoOutcome EXCEPT !.kind = "raise", !.exc = exc, !.detail = detail,
                      !.part = part]
Raises(exc, detail) == RaisesWith(exc, detail, "")
Returns(payload) == [NoOutcome EXCEPT !.kind = "return", !.data = payload]

RateLimitedNever(reply) == FALSE

\* line 79
RateLimited(reply) == reply.status = 429

\* response.json()
Parses(reply) == reply.body.text = "json"

\* lines 68-72, 74-78 and 82-86: the try reads the JSON body and raises the
\* exception with the value of 'error'; the bare except catches whatever the
\* try raised, that exception included, and raises the one with response.text
ErrorResponse(exc, detail, reply) ==
    LET tried ==
            IF Parses(reply)
            THEN RaisesWith(exc, detail,
                            IF Get(reply.body.json, "error", "Unknown error")
                                   = "Unknown error"
                            THEN "Unknown error" ELSE "error")
            ELSE Raises("JSONDecodeError", "")
    IN  IF tried.kind = "raise"
        THEN RaisesWith(exc, detail, "response.text")
        ELSE tried

\* lines 61-95
HandleResponse(reply, build) ==
    IF reply.net # "ok"
    THEN Raises("EnableAIError", "Network error")
    ELSE IF reply.status = 401
    THEN Raises("AuthenticationError", "Invalid API key or authentication failed")
    ELSE IF reply.status = 400
    THEN ErrorResponse("ValidationError", "Validation error", reply)
    ELSE IF reply.status = 402
    THEN ErrorResponse("EnableAIError", "Payment required", reply)
    ELSE IF RateLimited(reply)
    THEN Raises("RateLimitError", "Rate limit exceeded")
    ELSE IF reply.status >= 400
    THEN ErrorResponse("EnableAIError", "API error", reply)
    ELSE IF reply.status = 204 \/ reply.body.text = ""
    THEN Returns(EmptyDict)
    ELSE IF Parses(reply)
    THEN Returns(reply.body.json)
    ELSE IF build = "requests>=2.27"
    THEN Raises("EnableAIError", "Network error")
    ELSE Raises("ValueError", "")

\* one call of _make_request, with the reply of the backend
make_request ==
    /\ observed.n < MaxRequests
    /\ \E reply \in Replies, build \in Builds :
          observed' = [Called("_make_request") EXCEPT
                          !.reply = reply,
                          !.out = HandleResponse(reply, build)]
    /\ UNCHANGED <<config, interaction_count, average_score, last_healing_check,
                   system_prompt, stop_flag, sampling_state, today, now, th,
                   reports, wake, result, calls, received, acked>>

(* ------------------ AnalyticsManager.submit_feedback ------------------- *)
\* models.py: the dataclass FeedbackResult
FeedbackResult(score, issue, feedback_id, timestamp) ==
    Dict([score |-> score, issue |-> issue, feedback_id |-> feedback_id,
          timestamp |-> timestamp])

\* lines 349-356: what _make_request raises goes on to the application;
\* response_data['score'] and ['issue'] raise KeyError when the key is
\* missing; the identifier is read from 'feedback_log_id'
SubmitFeedback(reply, build) ==
    LET made == HandleResponse(reply, build)
        response_data == made.data
    IN  IF made.kind = "raise" THEN made
        ELSE IF response_data["score"] = Missing THEN Raises("KeyError", "score")
        ELSE IF response_data["issue"] = Missing THEN Raises("KeyError", "issue")
        ELSE Returns(FeedbackResult(
                        response_data["score"],
                        response_data["issue"],
                        Get(response_data, "feedback_log_id", "unknown"),
                        Get(response_data, "timestamp", "datetime.now()")))

\* one call of analytics.submit_feedback, with the reply of the backend
submit_feedback ==
    /\ observed.n < MaxRequests
    /\ \E reply \in Replies, build \in Builds :
          observed' = [Called("submit_feedback") EXCEPT
                          !.reply = reply,
                          !.out = SubmitFeedback(reply, build)]
    /\ UNCHANGED <<config, interaction_count, average_score, last_healing_check,
                   system_prompt, stop_flag, sampling_state, today, now, th,
                   reports, wake, result, calls, received, acked>>

(* -------------------- the auxiliary read operations -------------------- *)
\* get_health_status, get_analytics, get_insights (lines 468-520): the
\* payload of a 200 reply; {} for another status and for whatever the GET
\* or response.json() raised
GetOrEmpty(reply) ==
    IF reply.net # "ok" THEN Returns(EmptyDict)
    ELSE IF reply.status # 200 THEN Returns(EmptyDict)
    ELSE IF Parses(reply) THEN Returns(reply.body.json)
    ELSE Returns(EmptyDict)

\* SamplingManager.get_stats, lines 125-132
GetStats ==
    [daily_sample_count |-> daily_sample_count,
     batch_queue_size |-> Len(batch_queue),
     max_daily_samples |-> sampling_config.max_daily_samples,
     sampling_rate |-> sampling_config.rate]

\* get_sampling_stats, lines 299-304
SamplingStats ==
    IF ~enable_sampling
    THEN Returns(Dict([error |-> "Sampling not enabled"]))
    ELSE Returns(GetStats)

\* the replies to the GET of an auxiliary read operation
GetReplies ==
    {reply \in Replies : reply.net # "ok" \/ reply.status \in {200, 204, 404, 500}}

\* lines 468-484
get_health_status ==
    /\ observed.n < MaxDirect
    /\ \E reply \in GetReplies :
          observed' = [Called("get_health_status") EXCEPT
                          !.reply = reply, !.out = GetOrEmpty(reply)]
    /\ UNCHANGED <<config, interaction_count, average_score, last_healing_check,
                   system_prompt, stop_flag, sampling_state, today, now, th,
                   reports, wake, result, calls, received, acked>>

\* lines 486-502
get_analytics ==
    /\ observed.n < MaxDirect
    /\ \E reply \in GetReplies :
          observed' = [Called("get_analytics") EXCEPT
                          !.reply = reply, !.out = GetOrEmpty(reply)]
    /\ UNCHANGED <<config, interaction_count, average_score, last_healing_check,
                   system_prompt, stop_flag, sampling_state, today, now, th,
                   reports, wake, result, calls, received, acked>>

\* lines 504-520
get_insights ==
    /\ observed.n < MaxDirect
    /\ \E reply \in GetReplies :
          observed' = [Called("get_insights") EXCEPT
                          !.reply = reply, !.out = GetOrEmpty(reply)]
    /\ UNCHANGED <<config, interaction_count, average_score, last_healing_check,
                   system_prompt, stop_flag, sampling_state, today, now, th,
                   reports, wake, result, calls, received, acked>>

get_sampling_stats ==
    /\ observed.n < MaxDirect
    /\ observed' = [Called("get_sampling_stats") EXCEPT !.out = SamplingStats]
    /\ UNCHANGED <<config, interaction_count, average_score, last_healing_check,
                   system_prompt, stop_flag, sampling_state, today, now, th,
                   reports, wake, result, calls, received, acked>>

(* ----------------------------- the clock ------------------------------- *)
Tick ==
    /\ now < env.maxTime
    /\ now' = now + 1
    /\ UNCHANGED <<config, observed, interaction_count, average_score, last_healing_check,
                   system_prompt, stop_flag, sampling_state, today, th, reports,
                   wake, result, calls, received, acked>>

(* ------------------------- the specification --------------------------- *)
\* AgentMonitor.__init__, lines 161-200, and SamplingManager.__init__
Constructed ==
    /\ report_async \in BOOLEAN
    /\ enable_sampling \in BOOLEAN
    /\ auto_healing \in BOOLEAN
    /\ sampling_config = [rate |-> 50, batch_size |-> 2, max_daily_samples |-> 2,
                          performance_threshold |-> 70]
    /\ interaction_count = 0
    /\ average_score = 0
    /\ last_healing_check = 0
    /\ system_prompt = "initial"
    /\ stop_flag = FALSE
    /\ batch_queue = <<>>
    /\ daily_sample_count = 0
    /\ today = 1
    /\ last_reset_date = today
    /\ now = 1
    /\ th = [x \in {"caller", "bg"} |->
                IF x = "caller" THEN Frame("idle")
                ELSE IF report_async THEN Frame("loop") ELSE Frame("none")]
    /\ reports = EmptyBag
    /\ wake = 0
    /\ result = [kind |-> "none", value |-> 0, by |-> ""]
    /\ calls = 0
    /\ received = <<>>
    /\ acked = 0
    /\ observed = NoCall

\* a run of every kind of monitor, with the clock
Init ==
    /\ Constructed
    /\ env = [maxCalls |-> IF report_async THEN AsyncCalls ELSE SyncCalls,
              maxInFlight |-> AsyncCalls,
              maxScored |-> IF report_async THEN 0 ELSE SpecScored,
              maxTime |-> MaxTime]

\* a burst of calls to a monitor without sampling that is over before the
\* clock moves
InitBurst ==
    /\ Constructed
    /\ ~enable_sampling
    /\ env = [maxCalls |-> BurstCalls,
              maxInFlight |-> MaxInFlight,
              maxScored |-> IF report_async THEN 0 ELSE MaxScored,
              maxTime |-> now]

\* a monitor with the default auto_healing and no sampling that gets little
\* traffic and may be stopped
InitLive ==
    /\ Constructed
    /\ ~enable_sampling
    /\ auto_healing
    /\ env = [maxCalls |-> LiveCalls,
              maxInFlight |-> LiveCalls,
              maxScored |-> IF report_async THEN 0 ELSE LiveCalls,
              maxTime |-> LiveTime]

\* a monitor with the default auto_healing and no sampling that gets no
\* traffic and may be stopped
InitStop ==
    /\ Constructed
    /\ ~enable_sampling
    /\ auto_healing
    /\ env = [maxCalls |-> 0, maxInFlight |-> 0, maxScored |-> 0,
              maxTime |-> StopTime]

\* a monitor with sampling and synchronous reports that two threads of the
\* application call at the same time; every draw below 1.0 is a sample
InitPair ==
    /\ report_async = FALSE
    /\ enable_sampling = TRUE
    /\ auto_healing = TRUE
    /\ sampling_config \in [rate : {100}, batch_size : {1, 2},
                            max_daily_samples : {PairCalls},
                            performance_threshold : {70}]
    /\ interaction_count = 0
    /\ average_score = 0
    /\ last_healing_check = 0
    /\ system_prompt = "initial"
    /\ stop_flag = FALSE
    /\ batch_queue = <<>>
    /\ daily_sample_count = 0
    /\ today = 1
    /\ last_reset_date = today
    /\ now = 1
    /\ th = [x \in Callers \cup {"bg"} |->
                IF x \in Callers THEN Frame("idle") ELSE Frame("none")]
    /\ reports = EmptyBag
    /\ wake = 0
    /\ result = [kind |-> "none", value |-> 0, by |-> ""]
    /\ calls = 0
    /\ received = <<>>
    /\ acked = 0
    /\ observed = NoCall
    /\ env = [maxCalls |-> PairCalls, maxInFlight |-> 0, maxScored |-> 0,
              maxTime |-> now]

\* a monitor, with or without sampling, on which the application calls the
\* auxiliary read operations and, when it has one, the SamplingManager
InitAux ==
    /\ Constructed
    /\ ~report_async /\ auto_healing
    /\ env = [maxCalls |-> 0, maxInFlight |-> 0, maxScored |-> 0, maxTime |-> now]

\* an EnableAIClient, beside a monitor that is left alone
InitClient ==
    /\ Constructed
    /\ ~report_async /\ ~enable_sampling /\ auto_healing
    /\ env = [maxCalls |-> 0, maxInFlight |-> 0, maxScored |-> 0, maxTime |-> now]

\* the SamplingManager of a monitor with sampling enabled, under every
\* configuration of a small set and every running average of the monitor
InitSampling ==
    /\ report_async = FALSE
    /\ enable_sampling = TRUE
    /\ auto_healing = TRUE
    /\ sampling_config \in [rate : {0, 50, 100}, batch_size : {1, 2, 3},
                            max_daily_samples : {0, 1, 2},
                            performance_threshold : {70}]
    /\ interaction_count = 0
    /\ average_score \in {0, Scaled(50), Scaled(80)}
    /\ last_healing_check = 0
    /\ system_prompt = "initial"
    /\ stop_flag = FALSE
    /\ batch_queue = <<>>
    /\ daily_sample_count = 0
    /\ today = 1
    /\ last_reset_date = today
    /\ now = 1
    /\ th = [x \in {"caller", "bg"} |->
                IF x = "caller" THEN Frame("idle") ELSE Frame("none")]
    /\ reports = EmptyBag
    /\ wake = 0
    /\ result = [kind |-> "none", value |-> 0, by |-> ""]
    /\ calls = 0
    /\ received = <<>>
    /\ acked = 0
    /\ observed = NoCall
    /\ env = [maxCalls |-> 0, maxInFlight |-> 0, maxScored |-> 0, maxTime |-> now]

\* some running thread takes the step A
Some(A(_, _)) == \E tf \in Running : A(tf[1], tf[2])

Next ==
    \/ Some(Call)
    \/ Some(ReportPost)
    \/ Some(ReportStatus)
    \/ Some(ReportIncCount)
    \/ Some(ReportReadAvg)
    \/ Some(ReportWriteAvg)
    \/ Some(Sample)
    \/ Some(GetBatch)
    \/ Some(ClearBatch)
    \/ Some(BatchPost)
    \/ Some(BatchDone)
    \/ Some(SampledReadCount)
    \/ Some(SampledWriteCount)
    \/ Some(CheckCount)
    \/ Some(CheckTime)
    \/ Some(SetLastCheck)
    \/ Some(Scan)
    \/ Some(ScanDone)
    \/ Some(Heal)
    \/ Some(HealDone)
    \/ Some(Fetch)
    \/ Some(FetchDone)
    \/ Some(Loop)
    \/ Some(Wake)
    \/ Tick

NextBurst ==
    \/ Some(Call)
    \/ Some(ReportPost)
    \/ Some(ReportStatus)
    \/ Some(ReportIncCount)
    \/ Some(ReportReadAvg)
    \/ Some(ReportWriteAvg)
    \/ Some(CheckCount)
    \/ Some(CheckTime)
    \/ Some(SetLastCheck)
    \/ Some(Scan)
    \/ Some(ScanDone)
    \/ Some(Heal)
    \/ Some(HealDone)
    \/ Some(Fetch)
    \/ Some(FetchDone)
    \/ Some(Loop)

NextSampling ==
    \/ should_sample
    \/ add_to_batch
    \/ get_batch
    \/ NewDay

NextLive ==
    \/ Some(Call)
    \/ Some(ReportPost)
    \/ Some(ReportStatus)
    \/ Some(ReportIncCount)
    \/ Some(ReportReadAvg)
    \/ Some(ReportWriteAvg)
    \/ Some(CheckCount)
    \/ Some(CheckTime)
    \/ Some(SetLastCheck)
    \/ Some(Scan)
    \/ Some(ScanDone)
    \/ Some(Heal)
    \/ Some(HealDone)
    \/ Some(Fetch)
    \/ Some(FetchDone)
    \/ Some(Loop)
    \/ Some(Wake)
    \/ Some(WakeLate)
    \/ Some(StopMonitoring)
    \/ Some(JoinDone)
    \/ Tick

NextStop ==
    \/ Some(CheckCount)
    \/ Some(CheckTime)
    \/ Some(SetLastCheck)
    \/ Some(Scan)
    \/ Some(ScanDone)
    \/ Some(Heal)
    \/ Some(HealDone)
    \/ Some(Fetch)
    \/ Some(FetchDone)
    \/ Some(Loop)
    \/ Some(Wake)
    \/ Some(WakeLate)
    \/ Some(StopMonitoring)
    \/ Some(JoinDone)
    \/ Tick

NextPair ==
    \/ Some(Call)
    \/ Some(Sample)
    \/ Some(GetBatch)
    \/ Some(ClearBatch)
    \/ Some(BatchPost)
    \/ Some(BatchDone)
    \/ Some(SampledReadCount)
    \/ Some(SampledWriteCount)
    \/ Some(CheckCount)

NextAux ==
    \/ get_health_status
    \/ get_analytics
    \/ get_insights
    \/ get_sampling_stats
    \/ should_sample
    \/ add_to_batch

NextClient ==
    \/ make_request
    \/ submit_feedback

\* the steps of the monitoring thread
BgNext ==
    LET f == th["bg"]
    IN  \/ Loop("bg", f)
        \/ Wake("bg", f)
        \/ WakeLate("bg", f)
        \/ CheckCount("bg", f)
        \/ CheckTime("bg", f)
        \/ SetLastCheck("bg", f)
        \/ Scan("bg", f)
        \/ ScanDone("bg", f)
        \/ Heal("bg", f)
        \/ HealDone("bg", f)
        \/ Fetch("bg", f)
        \/ FetchDone("bg", f)

Spec == Init /\ [][Next]_vars

\* the clock advances, the monitoring thread is scheduled and every HTTP
\* call it makes ends (the calls carry a timeout), and join(timeout=5) ends
SpecLive ==
    /\ InitLive
    /\ [][NextLive]_vars
    /\ WF_vars(Tick)
    /\ WF_vars(BgNext)
    /\ WF_vars(JoinDone("caller", th["caller"]))

\* the same scheduling, without calls of generate_response
SpecStop ==
    /\ InitStop
    /\ [][NextStop]_vars
    /\ WF_vars(Tick)
    /\ WF_vars(BgNext)
    /\ WF_vars(JoinDone("caller", th["caller"]))

SpecPair == InitPair /\ [][NextPair]_vars

SpecAux == InitAux /\ [][NextAux]_vars

SpecClient == InitClient /\ [][NextClient]_vars

SpecSampling == InitSampling /\ [][NextSampling]_vars

SpecBurst == InitBurst /\ [][NextBurst]_vars

(* ============================== properties ============================= *)
Checkers == {"caller", "bg"}
CallerIdle == th["caller"].pc = "idle"
\* no call is running and every report thread has ended
AllFinished == CallerIdle /\ reports = EmptyBag
\* thread t handles in this step what it holds at position pc
Handles(t, pc) == th[t].pc = pc /\ th'[t] # th[t]

RECURSIVE ClaimedFold(_)
ClaimedFold(seq) ==
    IF seq = <<>> THEN 0
    ELSE IF Len(seq) = 1 THEN Scaled(seq[1])
    ELSE (ClaimedFold(SubSeq(seq, 1, Len(seq) - 1)) + Scaled(seq[Len(seq)])) \div 2

\* C2: with sampling disabled and sequential synchronous reporting,
\* average_score is the fold of the quality scores received so far, a
\* score of 0 included.
C2_AverageIsFold ==
    (~enable_sampling /\ ~report_async /\ CallerIdle) =>
        average_score = ClaimedFold(received)

(* ------------------------------- C3 ------------------------------------ *)
\* C3: generate_response raises only what the model call raised, and a call
\* that returns returns the response of its model call, whatever the
\* report, batch, scan, heal and prompt-fetch calls did.
C3_OnlyModelFailuresRaise ==
    /\ result.kind = "raised" => result.by = "model"
    /\ result.kind = "returned" => result.value = calls

\* a synchronous call has returned its response although its report was not
\* answered 201 and the healing cycle it started failed on the way
C3_Witness ==
    /\ ~enable_sampling /\ ~report_async
    /\ CallerIdle
    /\ result.kind = "returned" /\ result.value = 1
    /\ acked = 0
    /\ last_healing_check # 0

(* ------------------------------- C4 ------------------------------------ *)
\* C4: with report_async = true the caller's path waits for no monitoring
\* HTTP call: the caller's thread never holds the reply of a report, scan,
\* heal or prompt-fetch call.
C4_CallerWaitsForNoCall ==
    report_async =>
        th["caller"].pc \notin {"post_done", "scan_done", "heal_done", "fetch_done"}

(* ------------------------------- C5 ------------------------------------ *)
\* C5: with report_async = true no update of interaction_count is lost:
\* when the report threads have ended, the counter has grown by the number
\* of reports that completed successfully.
C5_NoLostUpdate ==
    (report_async /\ ~enable_sampling /\ AllFinished) => interaction_count = acked

(* ------------------------------- C6 ------------------------------------ *)
\* C6, as stated: a thread sends the scan call only in a state where
\* interaction_count is one of 10, 20, 30, ...
C6_ScanOnlyAtTenTwenty ==
    \A t \in Checkers :
        th[t].pc = "scan" =>
            interaction_count > 0 /\ interaction_count % 10 = 0

\* C6, amended: a cycle is started only by a cadence check that read
\* interaction_count as a multiple of 10, and 0 is one of them; with
\* synchronous reporting the counter still has that value when the scan
\* call is sent.
C6_ScanOnlyAfterMultipleOfTen ==
    \A t \in Checkers :
        /\ th[t].pc \in {"chk_time", "set_last", "scan"} => th[t].c % 10 = 0
        /\ (~report_async /\ th[t].pc = "scan") => interaction_count % 10 = 0

\* generate_response is about to send the scan call at interaction_count 10
C6_Witness ==
    th["caller"].pc = "scan" /\ interaction_count = 10 /\ th["caller"].c = 10

(* ------------------------------- C7 ------------------------------------ *)
\* C7: no cycle is started while last_healing_check is set and less than
\* 5 minutes (one clock unit) old: a thread that is about to store
\* last_healing_check and send the scan call finds the last cycle at least
\* 5 minutes back (or none), also when another thread runs the check at the
\* same time.
C7_NoCycleWithinInterval ==
    \A t \in Checkers :
        th[t].pc = "set_last" =>
            last_healing_check = 0 \/ th[t].ct - last_healing_check >= 1

(* ------------------------------- C8 ------------------------------------ *)
\* C8: the heal call is made only by a thread whose scan call returned 200
\* with this agent in agents_flagged; a thread whose scan call failed or
\* did not flag the agent ends its cycle there, without a heal call or a
\* prompt fetch and without changing system_prompt.
C8_HealOnlyWhenFlagged ==
    [][\A t \in Checkers :
          /\ Handles(t, "scan_done") =>
                IF th[t].resp.status = 200 /\ "agent-1" \in th[t].resp.agents_flagged
                THEN th'[t].pc = "heal"
                ELSE /\ th'[t].pc \in {"idle", "sleep"}
                     /\ system_prompt' = system_prompt
          /\ (th'[t].pc = "heal" /\ th[t].pc # "heal") => th[t].pc = "scan_done"
       ]_vars

\* a scan that returned 200 and flagged only another agent
C8_Witness ==
    \E t \in Checkers :
        /\ th[t].pc = "scan_done"
        /\ th[t].resp.status = 200
        /\ th[t].resp.agents_flagged = {"agent-2"}

(* ------------------------------- C9 ------------------------------------ *)
\* C9: with auto_healing, a heal reply of 200 with prompt_updated makes the
\* thread call the prompt-fetch endpoint next, and system_prompt becomes
\* the system prompt that call returns; a fetch that returns none leaves
\* system_prompt as it was.
C9_AutoFetchesPrompt ==
    [][\A t \in Checkers :
          /\ (Handles(t, "heal_done") /\ auto_healing
                /\ th[t].resp.status = 200 /\ th[t].resp.prompt_updated)
                => th'[t].pc = "fetch" /\ system_prompt' = system_prompt
          /\ Handles(t, "fetch") => th'[t].pc = "fetch_done"
          /\ Handles(t, "fetch_done") =>
                system_prompt' =
                    IF th[t].resp.status = 200 /\ th[t].resp.system_prompt # ""
                    THEN th[t].resp.system_prompt
                    ELSE system_prompt
       ]_vars

\* the fetched prompt is in place
C9_Witness == auto_healing /\ system_prompt = "fetched"

(* ------------------------------- C10 ----------------------------------- *)
\* C10: without auto_healing, a heal reply of 200 with a suggested_prompt
\* makes that prompt the system_prompt and ends the cycle; no thread of
\* such a monitor ever calls the prompt-fetch endpoint.
C10_SuggestionAdopted ==
    /\ [](~auto_healing =>
            \A t \in Checkers : th[t].pc \notin {"fetch", "fetch_done"})
    /\ [][\A t \in Checkers :
            (Handles(t, "heal_done") /\ ~auto_healing
                /\ th[t].resp.status = 200 /\ th[t].resp.suggested_prompt # "")
                => /\ system_prompt' = th[t].resp.suggested_prompt
                   /\ th'[t].pc \in {"idle", "sleep"}
         ]_vars

\* the suggested prompt is in place
C10_Witness == ~auto_healing /\ system_prompt = "suggested"

(* ------------------------------- C11 ----------------------------------- *)
\* this step is the application's call of op
Calls(op) == observed'.n = observed.n + 1 /\ observed'.op = op

\* C11: with rate = 1.0 a call of should_sample returns true and counts
\* while daily_sample_count < max_daily_samples, returns false and counts
\* nothing once the limit is reached on the same day, and on the first call
\* of a new day resets the counter, returns true and leaves the counter at
\* 1 (with a limit of 0 it returns false and leaves the counter at 0); the
\* reset date then is the new day, so the counter is reset once.
C11_FullRateUntilDailyLimit ==
    [][(Calls("should_sample") /\ sampling_config.rate = 100) =>
          IF today # last_reset_date
          THEN /\ observed'.ret <=> sampling_config.max_daily_samples > 0
               /\ daily_sample_count' = IF observed'.ret THEN 1 ELSE 0
               /\ last_reset_date' = today
          ELSE IF daily_sample_count < sampling_config.max_daily_samples
          THEN /\ observed'.ret
               /\ daily_sample_count' = daily_sample_count + 1
               /\ last_reset_date' = last_reset_date
          ELSE /\ ~observed'.ret
               /\ daily_sample_count' = daily_sample_count
               /\ last_reset_date' = last_reset_date
      ]_vars

\* the fourth call, the first of day 2, has returned true after the limit
\* of 2 was reached on day 1
C11_Witness ==
    /\ sampling_config.rate = 100 /\ sampling_config.max_daily_samples = 2
    /\ observed.op = "should_sample" /\ observed.ret /\ observed.n = 4
    /\ batch_queue = <<>>
    /\ today = 2 /\ last_reset_date = 2 /\ daily_sample_count = 1

(* ------------------------------- C12 ----------------------------------- *)
\* C12: with rate = 0.0 no call of should_sample returns true, whatever
\* the draw, the running average and the day, and daily_sample_count
\* stays 0.
C12_ZeroRateNeverSamples ==
    sampling_config.rate = 0 =>
        /\ daily_sample_count = 0
        /\ observed.op = "should_sample" => ~observed.ret

\* should_sample has drawn 0.0 under a monitor whose average is below the
\* threshold
C12_Witness ==
    /\ sampling_config.rate = 0
    /\ observed.op = "should_sample" /\ observed.draw = 0 /\ ~observed.ret
    /\ average_score = Scaled(50)
    /\ observed.n = MaxDirect

(* ------------------------------- C13 ----------------------------------- *)
\* C13: under a monitor whose average_score is below performance_threshold
\* a draw d with rate <= d < 2*rate, made below the daily limit, counts as
\* a sample: should_sample returns true and increments the daily counter.
C13_LowAverageDoublesRate ==
    [][(/\ Calls("should_sample")
        /\ average_score < Scaled(sampling_config.performance_threshold)
        /\ today = last_reset_date
        /\ daily_sample_count < sampling_config.max_daily_samples
        /\ sampling_config.rate <= observed'.draw
        /\ observed'.draw < 2 * sampling_config.rate)
        => /\ observed'.ret
           /\ daily_sample_count' = daily_sample_count + 1
      ]_vars

(* ------------------------------- C14 ----------------------------------- *)
\* C14: add_to_batch appends its record to the pending batch and, while the
\* batch was below batch_size, returns true exactly when the batch has
\* reached batch_size; get_batch returns the pending records in insertion
\* order and leaves the pending batch empty.
C14_BatchFullSignalAndDrain ==
    [][/\ Calls("add_to_batch") =>
            /\ batch_queue' = Append(batch_queue, observed'.n)
            /\ Len(batch_queue) < sampling_config.batch_size =>
                  (observed'.ret <=> Len(batch_queue') = sampling_config.batch_size)
       /\ Calls("get_batch") =>
            /\ observed'.batch = batch_queue
            /\ batch_queue' = <<>>
      ]_vars

\* three records were added to an empty batch of size 3 and the drain that
\* followed returned them in order
C14_Witness ==
    /\ sampling_config.batch_size = 3
    /\ observed.op = "get_batch" /\ observed.n = 4
    /\ observed.batch = <<1, 2, 3>>
    /\ batch_queue = <<>>

(* ------------------------------- C15 ----------------------------------- *)
\* C15: with sampling enabled the pending batch never holds more than
\* batch_size records, and it holds fewer whenever no generate_response
\* call is running.
C15_BatchWithinSize ==
    enable_sampling =>
        /\ Len(batch_queue) <= sampling_config.batch_size
        /\ CallerIdle => Len(batch_queue) < sampling_config.batch_size

\* the second call filled the batch, flushed it and has returned
C15_Witness ==
    /\ enable_sampling /\ CallerIdle
    /\ result.kind = "returned" /\ calls = 2
    /\ daily_sample_count = 2
    /\ batch_queue = <<>>

(* ------------------------------- C16 ----------------------------------- *)
\* C16: with sampling enabled every generate_response call whose model
\* call succeeded has, when it is over, added exactly 1 to
\* interaction_count, sampled or not, flushed or not, and however the
\* batch send ended.
C16_SampledCallsAllCounted ==
    enable_sampling =>
        /\ interaction_count \in {calls - 1, calls}
        /\ CallerIdle => interaction_count = calls

\* three calls are over, one of them sampled, and all three are counted
C16_Witness ==
    /\ enable_sampling /\ CallerIdle
    /\ calls = 3 /\ interaction_count = 3
    /\ daily_sample_count = 1 /\ Len(batch_queue) = 1

(* ------------------------------- C17 ----------------------------------- *)
\* the records of a sequence
Records(seq) == {seq[i] : i \in 1..Len(seq)}

\* C17: while a drained batch is being sent the pending batch is empty; a
\* send that fails (status other than 201, or an exception) changes neither
\* average_score nor the pending batch, raises nothing (the call goes on to
\* count the interaction) and drops the drained records; the pending batch
\* only ever grows by the record of the running call, which is newer than
\* every record drained before.
C17_FailedBatchIsDropped ==
    /\ [](\A t \in Checkers :
            th[t].pc \in {"batch_post", "batch_done"} =>
                batch_queue = <<>> /\ th[t].batch # <<>>)
    /\ [][/\ \A t \in Checkers :
                (Handles(t, "batch_done") /\ th[t].resp.status # 201) =>
                    /\ average_score' = average_score
                    /\ batch_queue' = <<>>
                    /\ th'[t].batch = <<>>
                    /\ th'[t].pc = "s_rd_count"
                    /\ result' = result
          /\ \A t \in Checkers :
                Handles(t, "batch_post") => th'[t].batch = th[t].batch
          /\ batch_queue' \notin {batch_queue, <<>>} =>
                /\ batch_queue' = Append(batch_queue, calls)
                /\ \A r \in Records(batch_queue) : r < calls
         ]_vars

\* the send of a drained batch of two records has raised
C17_Witness ==
    /\ th["caller"].pc = "batch_done"
    /\ th["caller"].resp.status = 0
    /\ Len(th["caller"].batch) = 2
    /\ batch_queue = <<>>

(* ------------------------------- C18 ----------------------------------- *)
\* the traffic has stopped for good, the monitoring thread sleeps, and the
\* last cycle (if there was one) is more than 5 minutes back
Quiet ==
    /\ report_async /\ ~stop_flag
    /\ AllFinished /\ calls = env.maxCalls
    /\ th["bg"].pc = "sleep"
    /\ last_healing_check = 0 \/ now - last_healing_check > 1

\* C18: with report_async = true and no further traffic, the monitoring
\* thread eventually starts a scan again (unless the monitor is stopped),
\* whatever interaction_count is when the traffic stops.
C18_IdleAgentStillScanned ==
    Quiet ~> (th["bg"].pc = "scan" \/ stop_flag)

\* C19: the background loop can be stopped.  Once stop_monitoring has set the
\* flag, the loop exits, after the check in progress and its sleep at most.
\* A loop that tests the flag after the stop leaves, starting no check, and a
\* loop that has left takes no further step.  stop_monitoring returns: at once
\* when no thread was started, after the join otherwise, whether or not the
\* loop has left.
BgAt(pc) == th["bg"].pc = pc
C19_LoopIsStoppable ==
    /\ (stop_flag /\ report_async) ~> BgAt("exit")
    /\ (th["caller"].pc = "join") ~> (CallerIdle /\ observed.op = "stop_monitoring")
    /\ [][/\ (stop_flag /\ Handles("bg", "loop")) => BgAt("exit")'
          /\ BgAt("exit") => BgAt("exit")'
          /\ (~report_async /\ ~stop_flag /\ stop_flag')
                => (Calls("stop_monitoring") /\ CallerIdle')
          /\ ~report_async => BgAt("none")']_vars
C19_Witness ==
    /\ report_async /\ stop_flag
    /\ observed.op = "stop_monitoring" /\ CallerIdle
    /\ BgAt("exit")
    /\ last_healing_check > 0

\* C20: _make_request maps every reply to one outcome.  A 401 raises
\* AuthenticationError, a 400 ValidationError, a 429 RateLimitError, every
\* other status from 400 on the generic EnableAIError, a refused or timed
\* out connection the generic EnableAIError as a network error; a payload is
\* returned only for a status below 400, and every reply that is an error
\* ends in an exception, the same one under every version of requests.
Requested == observed.op = "_make_request"
IsError(reply) == reply.net # "ok" \/ reply.status >= 400
C20_ResponseMapping ==
    /\ Requested =>
          LET r == observed.reply
              o == observed.out
          IN  /\ o.kind \in {"raise", "return"}
              /\ o.kind = "raise" <=> o.exc # ""
              /\ r.net # "ok" => o = Raises("EnableAIError", "Network error")
              /\ (r.net = "ok" /\ r.status = 401) => o.exc = "AuthenticationError"
              /\ (r.net = "ok" /\ r.status = 400) => o.exc = "ValidationError"
              /\ (r.net = "ok" /\ r.status = 429) => o.exc = "RateLimitError"
              /\ (r.net = "ok" /\ r.status >= 400 /\ r.status \notin {400, 401, 429})
                    => o.exc = "EnableAIError"
              /\ o.kind = "return" => (r.net = "ok" /\ r.status < 400)
              /\ IsError(r) => o.kind = "raise"
    /\ \A r \in Replies :
          IsError(r) => \A b1, b2 \in Builds : HandleResponse(r, b1) = HandleResponse(r, b2)
C20_Witness ==
    /\ Requested
    /\ observed.n = MaxRequests
    /\ observed.reply.status = 429
    /\ observed.out = Raises("RateLimitError", "Rate limit exceeded")

(* ------------------------------- C21 ----------------------------------- *)
\* C21: the ValidationError that _make_request raises on a 400 reply whose
\* body is JSON with an 'error' field carries the value of that field; it
\* carries the raw body only when the reply has no such field.
C21_ValidationCarriesErrorText ==
    (Requested /\ observed.reply.net = "ok" /\ observed.reply.status = 400) =>
        LET r == observed.reply
            o == observed.out
        IN  /\ o.exc = "ValidationError"
            /\ o.part = IF Parses(r) /\ r.body.json["error"] # Missing
                        THEN "error" ELSE "response.text"

(* ------------------------------- C26 ----------------------------------- *)
\* C26: submit_feedback, answered with a success reply that carries score,
\* issue and feedback_id, returns a FeedbackResult with exactly these three
\* values.
C26_FeedbackResultCarriesReply ==
    LET r == observed.reply
        o == observed.out
    IN  (/\ observed.op = "submit_feedback"
         /\ r.net = "ok" /\ r.status \in {200, 201} /\ Parses(r)
         /\ \A k \in {"score", "issue", "feedback_id"} : r.body.json[k] # Missing)
        => /\ o.kind = "return"
           /\ \A k \in {"score", "issue", "feedback_id"} : o.data[k] = r.body.json[k]

(* ------------------------------- C22 ----------------------------------- *)
AuxiliaryGets == {"get_health_status", "get_analytics", "get_insights"}

\* C22: each of get_health_status, get_analytics, get_insights and
\* get_sampling_stats returns (it never raises) and leaves the Monitor State
\* and the Sampling State as they are; it returns the empty mapping when it
\* cannot deliver its data: after a status other than 200 or an exception
\* for the three GET operations, without sampling for get_sampling_stats.
C22_AuxiliaryReadsReturnEmpty ==
    [][/\ \A op \in AuxiliaryGets \cup {"get_sampling_stats"} :
            Calls(op) =>
                /\ observed'.out.kind = "return"
                /\ UNCHANGED <<interaction_count, average_score, last_healing_check,
                               system_prompt, sampling_state>>
       /\ \A op \in AuxiliaryGets :
            (Calls(op) /\ (observed'.reply.net # "ok" \/ observed'.reply.status # 200
                              \/ ~Parses(observed'.reply)))
                => observed'.out.data = EmptyDict
       /\ (Calls("get_sampling_stats") /\ ~enable_sampling)
                => observed'.out.data = EmptyDict
      ]_vars

(* ------------------------------- C23 ----------------------------------- *)
\* C23: get_batch returns and clears the pending batch atomically, also when
\* two threads call generate_response on one monitor with sampling: no two
\* drains hold the same record, and a drain clears no record that it does
\* not return.
C23_DrainIsAtomic ==
    /\ [](\A t1, t2 \in DOMAIN th :
            t1 # t2 => Records(th[t1].batch) \cap Records(th[t2].batch) = {})
    /\ [][\A t \in DOMAIN th :
            Handles(t, "clear_batch") => Records(batch_queue) \subseteq Records(th[t].batch)
         ]_vars

(* ------------------------------- C24 ----------------------------------- *)
\* the daily counter a call of should_sample finds, after the reset that a
\* new day brings (lines 86-89)
CounterOfToday == IF today # last_reset_date THEN 0 ELSE daily_sample_count

\* C24: a call of should_sample that finds the daily counter at
\* max_daily_samples returns false and leaves the counter as it is, whatever
\* the rate and the draw; with max_daily_samples = 0 no call ever returns
\* true and the counter stays 0; in sequential use the counter never
\* exceeds max_daily_samples.
C24_NoSampleAtDailyLimit ==
    /\ [](daily_sample_count <= sampling_config.max_daily_samples)
    /\ [](sampling_config.max_daily_samples = 0 =>
            (observed.op = "should_sample" => ~observed.ret))
    /\ [][(Calls("should_sample")
            /\ CounterOfToday >= sampling_config.max_daily_samples)
            => /\ ~observed'.ret
               /\ daily_sample_count' = daily_sample_count
         ]_vars

\* with max_daily_samples = 0 and rate 1.0 the last call of the run, made on
\* the second day with a draw of 0.0, has returned false
C24_Witness ==
    /\ sampling_config.max_daily_samples = 0 /\ sampling_config.rate = 100
    /\ observed.op = "should_sample" /\ observed.draw = 0 /\ ~observed.ret
    /\ observed.n = MaxDirect
    /\ today = 2 /\ last_reset_date = 2
    /\ daily_sample_count = 0

(* ------------------------------- C25 ----------------------------------- *)
\* C25: interaction_count is never negative and no step lowers it, however
\* the generate_response calls and the report threads in flight interleave.
C25_CountIsMonotonic ==
    /\ [](interaction_count >= 0)
    /\ [][interaction_count' >= interaction_count]_vars

(* ------------------------------- C27 ----------------------------------- *)
\* the frames of the threads that are at position pc of _report_performance
Reporting(pc) == {f \in {th["caller"]} \cup BagToSet(reports) : f.pc = pc}

\* the report of frame f ends in the except branch of lines 362-364
Excepts(f) == f.resp.status = 0 \/ ~f.resp.dict

\* C27: without sampling, interaction_count changes only by the increment
\* of a report whose POST was answered 201, and average_score only by the
\* fold of the quality score such a reply carries; a report whose POST got
\* another status, or that raises, changes neither and ends there: a POST is
\* only ever sent for a new call.
C27_OnlyAnsweredReportsCount ==
    /\ [](\A f \in Reporting("inc_count") \cup Reporting("rd_avg") \cup Reporting("wr_avg") :
            f.resp.status = 201)
    /\ [][~enable_sampling =>
            /\ interaction_count' # interaction_count =>
                  /\ interaction_count' = interaction_count + 1
                  /\ \E f \in Reporting("inc_count") :
                        f.resp.status = 201 /\ ~Excepts(f)
            /\ average_score' # average_score =>
                  \E f \in Reporting("wr_avg") :
                      /\ f.resp.status = 201 /\ f.resp.has_score /\ ~Excepts(f)
                      /\ average_score' = Fold(average_score, f.resp.score)
            /\ (Handles("caller", "post_done") /\ th["caller"].resp.status # 201)
                    => /\ interaction_count' = interaction_count
                       /\ average_score' = average_score
                       /\ th'["caller"].pc = "chk_count"
            /\ \A f \in BagToSet(reports) :
                  (f.pc = "post_done" /\ f.resp.status # 201 /\ reports' # reports)
                    => /\ interaction_count' = interaction_count
                       /\ average_score' = average_score
                       /\ reports' = reports (-) SetToBag({f})
            /\ (Reporting("post")' # {} /\ Reporting("post") = {}) => calls' = calls + 1
         ]_vars

(* ------------------------------- C28 ----------------------------------- *)
InCycle(f) ==
    f.pc \in {"scan", "scan_done", "heal", "heal_done", "fetch", "fetch_done"}
\* the cycle of frame f fails at the step f is about to take
Failing(f) ==
    f.pc \in {"scan_done", "heal_done", "fetch_done"} /\ f.resp.status # 200

\* C28: last_healing_check is stored before the scan call, so it is set
\* while a cycle runs; a cycle that fails at the scan, the heal or the prompt
\* fetch leaves it as it is and ends; and a cycle, whether or not the last
\* one failed, only starts when no cycle started before or the last start
\* is more than 5 minutes (one clock unit) back.
C28_FailedCycleConsumesWindow ==
    /\ [](\A t \in Checkers : InCycle(th[t]) => last_healing_check # 0)
    /\ [][\A t \in Checkers :
            /\ Handles(t, "set_last") =>
                  /\ last_healing_check' = th[t].ct
                  /\ th'[t].pc = "scan"
            /\ (Failing(th[t]) /\ th'[t] # th[t]) =>
                  /\ last_healing_check' = last_healing_check
                  /\ ~InCycle(th'[t])
            /\ Handles(t, "set_last") =>
                  \/ last_healing_check = 0
                  \/ th[t].ct - last_healing_check > HealingInterval
         ]_vars

(* ------------------------------- C29 ----------------------------------- *)
\* C29: a generate_response call whose model call raises changes nothing but
\* the outcome the caller sees: no thread moves (no report, no sampling, no
\* batch, no self-healing check), no report thread is started, and the
\* counters, last_healing_check, system_prompt and the sampling state are
\* as before.
C29_RaisingCallHasNoEffect ==
    [][(result' # result /\ result'.kind = "raised" /\ result'.by = "model") =>
            UNCHANGED <<th, reports, calls, acked, received, interaction_count,
                        average_score, last_healing_check, system_prompt,
                        sampling_state, stop_flag, config>>
      ]_vars

\* the model call raised after a call that was reported and counted
C29_Witness ==
    /\ result.kind = "raised" /\ result.by = "model"
    /\ CallerIdle
    /\ calls = 1 /\ interaction_count = 1 /\ average_score = Scaled(80)

(* ------------------------------- C30 ----------------------------------- *)
\* the records of q are in the order of the calls that made them, each once
Increasing(q) == \A i, j \in 1..Len(q) : i < j => q[i] < q[j]

\* the positions of _send_batch where the caller holds a drained batch
Sending == {"batch_post", "batch_done"}

\* C30: with sampling and one caller, the pending batch holds records of
\* calls made so far in arrival order, each once, and not yet the record of
\* the call that is at should_sample; the pending batch grows only by the
\* record of the current call, exactly when should_sample counted it as
\* sampled, and shrinks only when get_batch drains all of it into the batch
\* of the one POST that follows; that batch is posted once and dropped
\* whatever the reply.  So the sampled records are those pending plus those
\* drained into a POST, and no unsampled record is in either.
C30_SampledRecordsAreBatchedOnce ==
    /\ [](enable_sampling =>
            LET f == th["caller"]
            IN  /\ Increasing(batch_queue)
                /\ \A i \in 1..Len(batch_queue) : batch_queue[i] <= calls
                /\ f.pc = "sample" =>
                      \A i \in 1..Len(batch_queue) : batch_queue[i] < f.response
                /\ f.pc = "clear_batch" => f.batch = batch_queue /\ f.batch # <<>>
                /\ f.pc \in Sending =>
                      /\ batch_queue = <<>>
                      /\ f.batch # <<>> /\ Increasing(f.batch)
                      /\ f.batch[Len(f.batch)] = f.response
                /\ f.pc \notin Sending \cup {"clear_batch"} => f.batch = <<>>)
    /\ [][enable_sampling =>
            LET f == th["caller"]
                g == th'["caller"]
            IN  /\ batch_queue' # batch_queue =>
                      \/ /\ Handles("caller", "sample")
                         /\ batch_queue' = Append(batch_queue, f.response)
                         /\ daily_sample_count' = CounterOfToday + 1
                      \/ /\ Handles("caller", "clear_batch")
                         /\ batch_queue' = <<>>
                         /\ g.pc = "batch_post" /\ g.batch = batch_queue
                /\ (Handles("caller", "sample") /\ batch_queue' = batch_queue) =>
                      daily_sample_count' = CounterOfToday
                /\ Handles("caller", "clear_batch") => batch_queue' = <<>>
                /\ Handles("caller", "batch_post") =>
                      g.pc = "batch_done" /\ g.batch = f.batch
                /\ Handles("caller", "batch_done") =>
                      /\ g.pc = "s_rd_count" /\ g.batch = <<>>
                      /\ batch_queue' = <<>>
         ]_vars

\* the second call was not sampled: the batch of calls 1 and 3 is posted
C30_Witness ==
    /\ enable_sampling
    /\ th["caller"].pc = "batch_done" /\ th["caller"].batch = <<1, 3>>
    /\ th["caller"].resp.status = 500
    /\ batch_queue = <<>> /\ interaction_count = 2

====
